---- MODULE Spec2Model ----
(***************************************************************************)
(* The dual-viewport core of MapManager (src/src/js/MapManager.js): the    *)
(* two Leaflet maps, the syncing flag, the camera sync handler installed   *)
(* by setupMapSync, toggleSync, loadGeoJSON, setZoom, clearGeoJSON,        *)
(* centerOnUserLocation and getDebugInfo, and the ScaleSelector control    *)
(* of each map with its scale table.  The pure functions of the program    *)
(* (the label of a zoom, the zoom of a label, the measurement formatter)   *)
(* are operators, applied to enumerated inputs by PureSpec.                *)
(* ShapeSpec adds the shapes drawn with Geoman and their measurement       *)
(* popups, StorageSpec is StorageManager (src/src/js/StorageManager.js)    *)
(* over the two storages of the browser, and UploadSpec is the sync button *)
(* and the file upload of MapApplication (src/src/js/MapApplication.js)    *)
(* around the maps and the storage.  The specifications share the          *)
(* variables; each leaves at its initial value what it is not about.       *)
(*                                                                         *)
(* The maps themselves are Leaflet objects.  They are modelled by the      *)
(* contract of the Leaflet calls the code makes:                           *)
(*   - listeners run synchronously, inside the call that fires the event,  *)
(*     and a nested listener finishes before the next event of the outer   *)
(*     call fires.  The variable stack holds the work of the running call  *)
(*     that is still to be done, innermost first; nothing else runs while  *)
(*     it is not empty (one JavaScript thread);                            *)
(*   - setView(c, z, {animate: false}) sets the view at once.  It fires    *)
(*     'move', and after it 'zoomend' when the zoom changed; when the      *)
(*     requested view is the current one it fires neither;                 *)
(*   - fitBounds(b) is setView without animate: false.  Leaflet either     *)
(*     resets the view at once (events fire inside the call) or animates   *)
(*     it (the view is reached and the events fire after the caller has    *)
(*     returned), depending on the pixel distance.  Centers are abstract   *)
(*     here, so the model takes either outcome.  setView(c, z) and         *)
(*     setZoom(z) without animate: false behave the same way; setZoom(z)   *)
(*     is setView(getCenter(), z);                                         *)
(*   - both map containers have the same size, so fitBounds(b) asks both   *)
(*     maps for the same camera.                                           *)
(***************************************************************************)
EXTENDS Integers, Sequences, FiniteSets, TLC

\* ---- bounds of the model
MaxCenter == 1
MaxCount == 6
\* distances are taken up to this many hundredths of a metre on either side
\* of the kilometre threshold
MaxOffset == 50
\* a shape has at most this many vertices
MaxRing == 4
\* the longitudes of the vertices are 0 .. MaxLng
MaxLng == 2
\* at most this many shapes are drawn on a map
MaxShapes == 1

\* ---- program constants (the center [35.703640, 139.747635] is center 0)
DefaultCenter == 0
DefaultZoom == 11
\* the zoom centerOnUserLocation sets, the second zoom level of the model
\* (its scale label differs from the one of DefaultZoom)
LocateZoom == 16
\* maxZoom of the tile layers: the highest zoom a map takes
MaxZoom == 21
\* distances above this many metres are reported in kilometres
KmThreshold == 1000
\* areas above this many square metres are reported in hectares
HaThreshold == 10000

Null == "null"
\* this.map<m> = null: no map, hence no camera
NoMap == [center |-> 0 - 1, zoom |-> 0 - 1]
MapIds == {1, 2}
Other(m) == 3 - m

Centers == 0 .. MaxCenter
Zooms == {DefaultZoom, LocateZoom}
Camera(c, z) == [center |-> c, zoom |-> z]
Cameras == {Camera(c, z) : c \in Centers, z \in Zooms}
DefaultCamera == Camera(DefaultCenter, DefaultZoom)
\* no animated view change under way
NoAnim == [cam |-> NoMap, cause |-> "none"]
\* a feature group holding no layer (after clearLayers)
Empty == "none"

\* ---- datasets handed to loadGeoJSON
\*  boxA, boxB : features with an extent
\*  point      : a single Point feature: bounds of zero extent, which Leaflet's
\*               LatLngBounds.isValid() accepts (both corners are set)
\*  empty      : an empty FeatureCollection: its layer's bounds have no corner
\*               and isValid() is false
\*  bad        : an object L.geoJSON throws on ("Invalid GeoJSON object.")
Datasets == {"boxA", "boxB", "point", "empty", "bad"}

\* ---- ScaleSelector: the scale table.  Zoom levels are multiples of
\*      zoomSnap = 0.1; the table and the pure functions count them in tenths
\*      of a level, the cameras of the maps in whole levels.
Tenths(z) == z * 10
scales == << [text |-> "1:500",     zoom |-> 195],
             [text |-> "1:1,000",   zoom |-> 190],
             [text |-> "1:2,000",   zoom |-> 185],
             [text |-> "1:3,000",   zoom |-> 180],
             [text |-> "1:25,000",  zoom |-> 150],
             [text |-> "1:200,000", zoom |-> 120] >>
Labels == {scales[i].text : i \in 1 .. Len(scales)}

\* option.value = zoomLevel: the number as the string the DOM stores, here
\* its integer part followed by its decimal digit when it has one
toString(z) == IF z % 10 = 0 THEN <<z \div 10>> ELSE <<z \div 10, z % 10>>

\* variant: the option value is read with parseInt
parseFloat_int(str) == str[1] * 10

\* parseFloat(option.value)
parseFloat(str) == IF Len(str) = 1 THEN str[1] * 10 ELSE str[1] * 10 + str[2]

\* the <option> elements onAdd creates, in the order of Object.entries
options == [i \in 1 .. Len(scales) |->
              [value |-> toString(scales[i].zoom), text |-> scales[i].text]]

Abs(n) == IF n < 0 THEN 0 - n ELSE n

\* variant: an equally close option replaces the best match
closer_orEqual(diff, smallestDiff) == diff <= smallestDiff

\* diff < smallestDiff
closer(diff, smallestDiff) == diff < smallestDiff

\* the loop of _updateSelect from option i on; bestMatch = 0 stands for null
\* (and smallestDiff for Infinity then)
RECURSIVE scanOptions(_, _, _, _)
scanOptions(currentZoom, i, bestMatch, smallestDiff) ==
    IF i > Len(options) THEN bestMatch
    ELSE LET zoomValue == parseFloat(options[i].value)
             diff == Abs(currentZoom - zoomValue)
         IN  IF bestMatch = 0 \/ closer(diff, smallestDiff)
             THEN scanOptions(currentZoom, i + 1, i, diff)
             ELSE scanOptions(currentZoom, i + 1, bestMatch, smallestDiff)

\* select.value = v shows the first option whose value is v
optionWithValue(v) ==
    CHOOSE i \in 1 .. Len(options) :
        /\ options[i].value = v
        /\ \A j \in 1 .. i - 1 : options[j].value # v

\* _updateSelect: the label shown for the zoom (in tenths)
labelForZoom(currentZoom) ==
    LET bestMatch == scanOptions(currentZoom, 1, 0, 0)
    IN  options[optionWithValue(options[bestMatch].value)].text

\* the 'change' listener: the zoom handed to setZoom when the option with
\* this label is chosen
zoomForScale(label) ==
    LET i == CHOOSE k \in 1 .. Len(options) : options[k].text = label
    IN  parseFloat(options[i].value)

\* ---- _formatMeasurement: the line for a distance, here in hundredths of a
\*      metre.  toFixed(2) keeps two decimals: value is in hundredths of the
\*      unit (a half is rounded up; toFixed decides it on the binary value)
formatDistance(distance) ==
    IF distance > KmThreshold * 100
    THEN [unit |-> "km", value |-> (distance + 500) \div 1000]
    ELSE [unit |-> "m", value |-> distance]

\* ---- _formatMeasurement: the line for an area, here in hundredths of a
\*      square metre; value is in hundredths of the unit
formatArea(area) ==
    IF area > HaThreshold * 100
    THEN [unit |-> "ha", value |-> (area + 5000) \div 10000]
    ELSE [unit |-> "m2", value |-> area]

\* ---- the shapes drawn with Geoman.  A vertex is a Leaflet LatLng; the
\*      model takes its vertices from a grid of a few latitudes and
\*      longitudes.  A line's getLatLngs() is the list of its vertices, a
\*      polygon's the list of its rings, of which latlngs[0] is the one drawn:
\*      either way the sequence called points here.
LatLng(lat, lng) == [lat |-> lat, lng |-> lng]
Lats == {0, 30}
Lngs == 0 .. MaxLng
LatLngs == {LatLng(lat, lng) : lat \in Lats, lng \in Lngs}
\* the vertex sequences of at most n vertices
RingsUpTo(n) == UNION {[1 .. k -> LatLngs] : k \in 0 .. n}
\* the classes of the layers: L.Polygon extends L.Polyline, L.Marker does not
Kinds == {"Polyline", "Polygon", "Marker"}

\* layer instanceof L.Polyline
isPolyline(kind) == kind \in {"Polyline", "Polygon"}
\* layer instanceof L.Polygon
isPolygon(kind) == kind = "Polygon"

\* Leaflet: a.distanceTo(b), a distance on the globe: zero from a point to
\* itself, the same in both directions.  Here the distance along the grid,
\* one step being 500 m, in hundredths of a metre
distanceTo(a, b) == 50000 * (Abs(a.lat - b.lat) \div 30 + Abs(a.lng - b.lng))

\* the loop over the consecutive points, from index i on
RECURSIVE sumSegments(_, _)
sumSegments(points, i) ==
    IF i > Len(points) - 1 THEN 0
    ELSE distanceTo(points[i], points[i + 1]) + sumSegments(points, i + 1)

\* variant: the closing segment is added for a line too
closesRing_always(kind, points) == Len(points) > 1

\* layer instanceof L.Polygon && points.length > 1
closesRing(kind, points) == isPolygon(kind) /\ Len(points) > 1

\* the distance _formatMeasurement adds up for a line or a polygon
measuredDistance(kind, points) ==
    sumSegments(points, 1)
        + (IF closesRing(kind, points)
           THEN distanceTo(points[Len(points)], points[1]) ELSE 0)

\* Math.sin(lat * (Math.PI / 180)), doubled: sin 0 = 0, sin 30 = 1/2
sinTwice(lat) == IF lat = 30 THEN 1 ELSE 0

\* variant: the last point is not joined to the first
nextIndex_open(i, n) == IF i = n THEN i ELSE i + 1

\* (i + 1) % n, for indices counted from 1
nextIndex(i, n) == (i % n) + 1

\* the loop of _calculateGeodesicArea from index i on: the sum of
\* (p1.lng - p2.lng) * (2 + sin p1.lat + sin p2.lat), doubled
RECURSIVE ringSum(_, _)
ringSum(latLngs, i) ==
    IF i > Len(latLngs) THEN 0
    ELSE LET p1 == latLngs[i]
             p2 == latLngs[nextIndex(i, Len(latLngs))]
         IN  (p1.lng - p2.lng) * (4 + sinTwice(p1.lat) + sinTwice(p2.lat))
                + ringSum(latLngs, i + 1)

\* variant: the sum is returned with its sign
abs_signed(n) == n

\* Math.abs
abs(n) == IF n < 0 THEN 0 - n ELSE n

\* _calculateGeodesicArea, in hundredths of a square metre: the factor
\* (PI / 180) * R * R / 2 makes one unit of the doubled sum 1250 square metres
\* on the grid
calculateGeodesicArea(latLngs) == abs(ringSum(latLngs, 1) * 125000)

\* no line of text
NoLine == [unit |-> "", value |-> 0]

\* variant: a text is built for every layer
hasMeasurement_always(kind) == TRUE

\* hasMeasurement at the end of _formatMeasurement
hasMeasurement(kind) == isPolyline(kind) \/ isPolygon(kind)

\* _formatMeasurement(layer): the text, as its distance line (label:
\* "perimeter" for a polygon, "distance" for a line) and its area line; null
\* (has = FALSE) when the layer is neither
formatMeasurement(kind, points) ==
    [has |-> hasMeasurement(kind),
     label |-> IF ~isPolyline(kind) THEN ""
               ELSE IF isPolygon(kind) THEN "perimeter" ELSE "distance",
     distance |-> IF isPolyline(kind)
                  THEN formatDistance(measuredDistance(kind, points)) ELSE NoLine,
     area |-> IF isPolygon(kind)
              THEN formatArea(calculateGeodesicArea(points)) ELSE NoLine]

VARIABLES
    map,            \* map[m]: the camera of this.map<m>, NoMap before initializeMaps
    geojsonLayer,   \* geojsonLayer[m]: Null before initializeMaps, then Empty or the
                    \*                  dataset whose layer this.geojsonLayer<m> holds
    syncing,        \* this.syncing
    anim,           \* anim[m]: the animated view change under way on map m, or NoAnim
    stack,          \* the running call's pending work, innermost first
    op,             \* history: the last external trigger
    pre,            \* history: the state when that trigger arrived
    cnt,            \* history: what the sync handler did since that trigger
    fitOf,          \* history: the dataset the cameras were last fitted to, Null
                    \*          once another camera command has been given
    select,         \* select[m]: the label the ScaleSelector of map m shows, Null
                    \*            before the control is added
    lastCmd,        \* history: the last setZoom / clearGeoJSON / centerOnUserLocation
                    \*          camera command, NoCmd once another one has been given
    tog,            \* history: the run of toggleSync calls
    arg,            \* PureSpec: the function applied and its input
    out,            \* PureSpec: its result
    geomanLayer,    \* geomanLayer[m]: the shapes drawn on map m, each with its popup
    localStorage,   \* the items of the application in window.localStorage
    sessionStorage, \* the items of the application in window.sessionStorage
    sto,            \* history: the last call of the StorageManager and its result
    upload,         \* handleGeoJSONUpload: where the upload under way stands
    ui              \* UIController: the sync button, the error notice, the screen

vars == <<map, geojsonLayer, syncing, anim, stack, op, pre, cnt, fitOf,
          select, lastCmd, tog, arg, out,
          geomanLayer, localStorage, sessionStorage, sto, upload, ui>>
\* what the operations of MapManager never touch
pure == <<arg, out>>
\* the shapes, the browser's storage and the application around MapManager:
\* ShapeSpec, StorageSpec and UploadSpec are about them
storage == <<localStorage, sessionStorage, sto>>
app == <<upload, ui>>
beyond == <<geomanLayer, storage, app>>

\* ---- the frames of stack
\* an event fired on map m and not yet delivered to its listener
Ev(m, name, cause) == [type |-> "event", map |-> m, name |-> name, cause |-> cause]
\* loadGeoJSON's call this.map<m>.fitBounds(bounds), still to be made
FitFrame(m, d) == [type |-> "fit", map |-> m, d |-> d]
\* loadGeoJSON's return (ok: the value returned) through its finally block
FinallyFrame(wasSyncing, ok) == [type |-> "finally", wasSyncing |-> wasSyncing, ok |-> ok]
\* a call this.map<m>.setView(cam.center, cam.zoom), still to be made (or the
\* map.panBy by which Leaflet brings a popup it opens into view)
ViewFrame(m, cam) == [type |-> "view", map |-> m, cam |-> cam, cause |-> "view"]
\* setZoom's call this.map<m>.setZoom(z), still to be made
ZoomFrame(m, z) == [type |-> "zoom", map |-> m, zoom |-> z, cause |-> "view"]

\* variant: the view is set in a way that raises 'move' even when nothing
\* changes (setView with {reset: true})
ViewEvents_always(m, old, new, cause) ==
    IF old.zoom # new.zoom
    THEN <<Ev(m, "move", cause), Ev(m, "zoomend", cause)>>
    ELSE <<Ev(m, "move", cause)>>

\* ---- Leaflet: the 'move' / 'zoomend' events a view change fires on map m
ViewEvents(m, old, new, cause) ==
    IF old = new THEN <<>>
    ELSE IF old.zoom # new.zoom
         THEN <<Ev(m, "move", cause), Ev(m, "zoomend", cause)>>
         ELSE <<Ev(m, "move", cause)>>

\* ---- Leaflet: the events the end of an animated view change fires on map m
AnimEvents(m, old, new, cause) ==
    IF old.zoom # new.zoom
    THEN <<Ev(m, "move", cause), Ev(m, "zoomend", cause)>>
    ELSE <<Ev(m, "move", cause)>>

\* ---- history
Inc(n) == IF n < MaxCount THEN n + 1 ELSE n
ZeroCnt == [runs |-> 0, writes |-> 0, moved |-> 0, echoRuns |-> 0,
            echoWrites |-> 0, loadWrites |-> 0]
Snapshot == [map |-> map, layer |-> geojsonLayer, syncing |-> syncing, anim |-> anim]
Trigger(kind, m, d, result) == [kind |-> kind, map |-> m, d |-> d, result |-> result]

\* lastCmd: kind is "zoom" (zoom: the level asked for), "clear", "locate"
\* (center: the position found) or "none".  from: the centers of the maps
\* when setZoom was called; synced: syncing has been on since then
Cmd(kind, c, z) ==
    [kind |-> kind, center |-> c, zoom |-> z, from |-> <<0, 0>>, synced |-> FALSE]
ZoomCmd(z, from, synced) ==
    [kind |-> "zoom", center |-> 0, zoom |-> z, from |-> from, synced |-> synced]
NoCmd == Cmd("none", 0, 0)
\* tog: n consecutive toggleSync calls (counted 1, 2, 1, 2, ...) began with
\* syncing = start.  phase: 1 the last call switched syncing on again while
\* the cameras differed (the maps were moved while it was off), 2 the user
\* has moved a map since, as the next operation
Tog(n, start, phase) == [n |-> n, start |-> start, phase |-> phase]
NoTog == Tog(0, TRUE, 0)

Idle == stack = <<>>
Quiescent == Idle /\ \A m \in MapIds : anim[m] = NoAnim

\* ---- PureSpec: no function applied
NoArg == [fn |-> "none", x |-> 0, kind |-> "", points |-> <<>>]
\* text, unit, value: the label or the line computed; measure: the text of
\* formatMeasurement, distance and area the numbers it was built from
NoOut == [done |-> FALSE, text |-> "", unit |-> "", value |-> 0,
          distance |-> 0, area |-> 0,
          measure |-> [has |-> FALSE, label |-> "", distance |-> NoLine, area |-> NoLine]]

\* variant: the label is computed when the control is added and kept
updateSelect_cached(shown, zoom) ==
    IF shown = Null THEN labelForZoom(Tenths(zoom)) ELSE shown

\* ---- ScaleSelector._updateSelect on a map whose zoom is zoom
updateSelect(shown, zoom) == labelForZoom(Tenths(zoom))

\* ---- the browser's storage: an item is a string, here the sequence of the
\*      values JSON.stringify writes; getItem of a missing key gives null,
\*      which `if (data)` treats like the empty string
NoItem == <<>>
NoItems == [data |-> NoItem, metadata |-> NoItem]
\* sto: op is "save", "load", "clear" or "none"; result what the call
\* returned ("threw": it rejected); saved the dataset of the most recent save
\* that succeeded, loaded the dataset the last load returned (Null: none)
NoSto == [op |-> "none", result |-> "none", saved |-> Null, loaded |-> Null]
\* upload: pc is "idle", "reading" (awaiting readFile) or "loading" (awaiting
\* the promise of loadGeoJSON); content and name are the file's; held is
\* what the storage held when the upload began; result how the last one ended
NoUpload == [pc |-> "idle", content |-> Null, name |-> "",
             held |-> <<NoItems, NoItems>>, result |-> "none"]
\* the control panel as createControlPanel builds it
FirstUi == [syncBtn |-> TRUE, error |-> FALSE, screen |-> "app"]

\* no shape drawn, nothing stored, no upload under way
BeyondInit ==
    /\ geomanLayer = [m \in MapIds |-> <<>>]
    /\ localStorage = NoItems
    /\ sessionStorage = NoItems
    /\ sto = NoSto
    /\ upload = NoUpload
    /\ ui = FirstUi

\* variant: the constructor leaves syncing off
Init_syncingOff ==
    /\ map = [m \in MapIds |-> NoMap]
    /\ geojsonLayer = [m \in MapIds |-> Null]
    /\ syncing = FALSE
    /\ anim = [m \in MapIds |-> NoAnim]
    /\ stack = <<>>
    /\ op = Trigger("new", 0, Null, "none")
    /\ pre = [map |-> [m \in MapIds |-> NoMap], layer |-> [m \in MapIds |-> Null],
              syncing |-> FALSE, anim |-> [m \in MapIds |-> NoAnim]]
    /\ cnt = ZeroCnt
    /\ fitOf = Null
    /\ select = [m \in MapIds |-> Null]
    /\ lastCmd = NoCmd
    /\ tog = NoTog
    /\ arg = NoArg
    /\ out = NoOut
    /\ BeyondInit

\* ---- constructor
Init ==
    /\ map = [m \in MapIds |-> NoMap]
    /\ geojsonLayer = [m \in MapIds |-> Null]
    /\ syncing = TRUE
    /\ anim = [m \in MapIds |-> NoAnim]
    /\ stack = <<>>
    /\ op = Trigger("new", 0, Null, "none")
    /\ pre = [map |-> [m \in MapIds |-> NoMap], layer |-> [m \in MapIds |-> Null],
              syncing |-> TRUE, anim |-> [m \in MapIds |-> NoAnim]]
    /\ cnt = ZeroCnt
    /\ fitOf = Null
    /\ select = [m \in MapIds |-> Null]
    /\ lastCmd = NoCmd
    /\ tog = NoTog
    /\ arg = NoArg
    /\ out = NoOut
    /\ BeyondInit

\* ---- initializeMaps: both maps at the default camera, empty feature groups,
\*      a ScaleSelector added to each map (onAdd runs _updateSelect once),
\*      then setupMapSync installs the listeners
InitializeMaps ==
    /\ Idle
    /\ map[1] = NoMap
    /\ map' = [m \in MapIds |-> DefaultCamera]
    /\ geojsonLayer' = [m \in MapIds |-> Empty]
    /\ select' = [m \in MapIds |-> updateSelect(select[m], DefaultZoom)]
    /\ op' = Trigger("init", 0, Null, "none")
    /\ pre' = Snapshot
    /\ cnt' = ZeroCnt
    /\ tog' = NoTog
    /\ UNCHANGED <<syncing, anim, stack, fitOf, lastCmd, pure>>

\* ---- the user pans or zooms map m to (c, z): Leaflet sets the view, ends an
\*      animation of that map and fires 'move' (and 'zoomend')
UserMove(m, c, z) ==
    /\ Idle
    /\ map[m] # NoMap
    /\ Camera(c, z) # map[m]
    /\ map' = [map EXCEPT ![m] = Camera(c, z)]
    /\ anim' = [anim EXCEPT ![m] = NoAnim]
    /\ stack' = ViewEvents(m, map[m], Camera(c, z), "user")
    /\ op' = Trigger("move", m, Null, "none")
    /\ pre' = Snapshot
    /\ cnt' = ZeroCnt
    /\ fitOf' = Null
    /\ lastCmd' = NoCmd
    /\ tog' = Tog(0, TRUE, IF tog.phase = 1 THEN 2 ELSE 0)
    /\ UNCHANGED <<geojsonLayer, syncing, select, pure>>

\* variants of syncMaps with a slip in them
syncMaps_centerOnly(s, sourceCam, targetCam) ==
    IF ~s THEN targetCam ELSE [targetCam EXCEPT !.center = sourceCam.center]
syncMaps_noGuard(s, sourceCam, targetCam) ==
    sourceCam

\* ---- syncMaps(sourceMap, targetMap): the camera targetMap has afterwards
syncMaps(s, sourceCam, targetCam) ==
    IF ~s THEN targetCam ELSE sourceCam

\* ---- the listeners of the event at the top of the stack, in the order they
\*      were installed: on 'zoomend' the ScaleSelector of the map shows the
\*      label of its zoom; then the listener of 'move zoomend' runs syncMaps.  setView stops a pan animation of the
\*      target and leaves a zoom animation running: either outcome is taken.
SyncHandler ==
    /\ stack # <<>>
    /\ Head(stack).type = "event"
    /\ LET e == Head(stack)
           src == e.map
           tgt == Other(e.map)
           new == syncMaps(syncing, map[src], map[tgt])
       IN  /\ select' = IF e.name = "zoomend"
                        THEN [select EXCEPT ![src] = updateSelect(select[src], map[src].zoom)]
                        ELSE select
           /\ map' = [map EXCEPT ![tgt] = new]
           /\ \E stop \in BOOLEAN :
                anim' = IF syncing /\ stop THEN [anim EXCEPT ![tgt] = NoAnim] ELSE anim
           /\ stack' = ViewEvents(tgt, map[tgt], new, "sync") \o Tail(stack)
           /\ cnt' = [runs |-> Inc(cnt.runs),
                      writes |-> IF syncing THEN Inc(cnt.writes) ELSE cnt.writes,
                      moved |-> IF new # map[tgt] THEN Inc(cnt.moved) ELSE cnt.moved,
                      echoRuns |-> IF e.cause = "sync" THEN Inc(cnt.echoRuns)
                                   ELSE cnt.echoRuns,
                      echoWrites |-> IF syncing /\ e.cause = "sync"
                                     THEN Inc(cnt.echoWrites) ELSE cnt.echoWrites,
                      loadWrites |-> IF syncing /\ e.cause = "load"
                                     THEN Inc(cnt.loadWrites) ELSE cnt.loadWrites]
    /\ UNCHANGED <<geojsonLayer, syncing, op, pre, fitOf, lastCmd, tog, pure>>

\* variants of the flip: switch on only, switch off only
toggled_on(s) == TRUE
toggled_off(s) == FALSE

\* !this.syncing
toggled(s) == ~s

\* ---- toggleSync: flips the flag and returns it (op.result)
ToggleSync ==
    /\ Idle
    /\ syncing' = toggled(syncing)
    /\ op' = Trigger("toggle", 0, Null, IF toggled(syncing) THEN "true" ELSE "false")
    /\ pre' = Snapshot
    /\ cnt' = ZeroCnt
    /\ tog' = Tog(IF tog.n = 1 THEN 2 ELSE 1,
                  IF tog.n = 1 THEN tog.start ELSE syncing,
                  IF ~syncing /\ map[1] # map[2] THEN 1 ELSE 0)
    /\ lastCmd' = IF lastCmd.kind = "zoom" THEN [lastCmd EXCEPT !.synced = TRUE]
                  ELSE lastCmd
    /\ UNCHANGED <<map, geojsonLayer, anim, stack, fitOf, select, pure>>

\* ---- loadGeoJSON
\* L.geoJSON(geojsonData, ...) throws on this dataset
throwsOnBuild(d) == d = "bad"

\* variant: the bounds check always passes
isValid_always(d) == TRUE

\* bounds && bounds.isValid() of the layer built from d
isValid(d) == d \in {"boxA", "boxB", "point"}

\* the camera fitBounds(layer1.getBounds()) asks for (bounds of zero extent
\* are fitted at the highest zoom)
FitCamera(d) ==
    CASE d = "boxA" -> Camera(1, LocateZoom)
      [] d = "boxB" -> Camera(MaxCenter, DefaultZoom)
      [] d = "point" -> Camera(0, LocateZoom)
      [] OTHER -> DefaultCamera

\* !this.geojsonLayer1 || !this.geojsonLayer2
layersMissing(l1, l2) == l1 = Null \/ l2 = Null

\* variant: a missing layer is reported as success
missingResult_true == TRUE

\* the value returned when a layer is missing
missingResult == FALSE

\* variant: only the first map is fitted, the second left to the sync handler
fitTargets_firstOnly == <<1>>

\* the maps loadGeoJSON calls fitBounds on, in order
fitTargets == <<1, 2>>

\* variant: the flag is switched on when the load returns
restoreSyncing_on(wasSyncing, ok) == TRUE

\* variant: the flag is restored at the end of the try block, not in finally
restoreSyncing_onSuccessOnly(wasSyncing, ok) == IF ok THEN wasSyncing ELSE FALSE

\* finally { this.syncing = wasSyncing }
restoreSyncing(wasSyncing, ok) == wasSyncing

\* the call up to the first fitBounds: save and clear the flag, check the
\* layers, clear them, build the two layers (may throw), add them, and
\* decide on the bounds
LoadGeoJSON(d) ==
    /\ Idle
    /\ syncing' = FALSE
    /\ op' = Trigger("load", 0, d, "pending")
    /\ pre' = Snapshot
    /\ cnt' = ZeroCnt
    /\ IF layersMissing(geojsonLayer[1], geojsonLayer[2])
       THEN /\ stack' = <<FinallyFrame(syncing, missingResult)>>
            /\ UNCHANGED <<geojsonLayer, fitOf, lastCmd>>
       ELSE IF throwsOnBuild(d)
       THEN /\ geojsonLayer' = [m \in MapIds |-> Empty]
            /\ stack' = <<FinallyFrame(syncing, FALSE)>>
            /\ UNCHANGED <<fitOf, lastCmd>>
       ELSE /\ geojsonLayer' = [m \in MapIds |-> d]
            /\ IF isValid(d)
               THEN /\ stack' = [i \in 1 .. Len(fitTargets) |-> FitFrame(fitTargets[i], d)]
                                \o <<FinallyFrame(syncing, TRUE)>>
                    /\ fitOf' = d
                    /\ lastCmd' = NoCmd
               ELSE /\ stack' = <<FinallyFrame(syncing, TRUE)>>
                    /\ UNCHANGED <<fitOf, lastCmd>>
    /\ tog' = NoTog
    /\ UNCHANGED <<map, anim, select, pure>>

\* this.map<m>.fitBounds(bounds): the view is reset at once, its events
\* firing inside the call, or the change is animated
LoadFit ==
    /\ stack # <<>>
    /\ Head(stack).type = "fit"
    /\ LET m == Head(stack).map
           new == FitCamera(Head(stack).d)
       IN  \/ /\ map' = [map EXCEPT ![m] = new]
              /\ anim' = [anim EXCEPT ![m] = NoAnim]
              /\ stack' = ViewEvents(m, map[m], new, "load") \o Tail(stack)
           \/ /\ new # map[m]
              /\ anim' = [anim EXCEPT ![m] = [cam |-> new, cause |-> "load"]]
              /\ stack' = Tail(stack)
              /\ UNCHANGED map
    /\ UNCHANGED <<geojsonLayer, syncing, op, pre, cnt, fitOf, select, lastCmd, tog, pure>>

\* return through finally
LoadFinally ==
    /\ stack # <<>>
    /\ Head(stack).type = "finally"
    /\ syncing' = restoreSyncing(Head(stack).wasSyncing, Head(stack).ok)
    /\ op' = [op EXCEPT !.result = IF Head(stack).ok THEN "ok" ELSE "failed"]
    /\ stack' = Tail(stack)
    /\ UNCHANGED <<map, geojsonLayer, anim, pre, cnt, fitOf, select, lastCmd, tog, pure>>

\* ---- Leaflet: the animated view change of map m ends: the view is the
\*      requested one and the events fire
AnimEnd(m) ==
    /\ Idle
    /\ anim[m] # NoAnim
    /\ map' = [map EXCEPT ![m] = anim[m].cam]
    /\ anim' = [anim EXCEPT ![m] = NoAnim]
    /\ stack' = AnimEvents(m, map[m], anim[m].cam, anim[m].cause)
    /\ op' = Trigger("animEnd", m, Null, "none")
    /\ pre' = Snapshot
    /\ cnt' = ZeroCnt
    /\ UNCHANGED <<geojsonLayer, syncing, fitOf, select, lastCmd, tog, pure>>

\* ---- setZoom
\* variant: only the first map is zoomed, the second left to the sync handler
zoomTargets_firstOnly == <<1>>

\* the maps setZoom calls setZoom on, in order
zoomTargets == <<1, 2>>

\* setZoom(z): the 'change' listener of either ScaleSelector calls it with
\* the zoom of the chosen option.  z ranges over the zoom levels of the model
SetZoom(z) ==
    /\ Idle
    /\ IF map[1] # NoMap /\ map[2] # NoMap
       THEN /\ stack' = [i \in 1 .. Len(zoomTargets) |-> ZoomFrame(zoomTargets[i], z)]
            /\ fitOf' = Null
            /\ lastCmd' = ZoomCmd(z, <<map[1].center, map[2].center>>, syncing)
       ELSE UNCHANGED <<stack, fitOf, lastCmd>>
    /\ op' = Trigger("setZoom", 0, Null, "none")
    /\ pre' = Snapshot
    /\ cnt' = ZeroCnt
    /\ tog' = NoTog
    /\ UNCHANGED <<map, geojsonLayer, syncing, anim, select, pure>>

\* this.map<m>.setView(c, z) or this.map<m>.setZoom(z), which is
\* setView(getCenter(), z): the view is reset at once, its events firing
\* inside the call, or the change is animated
ViewCall ==
    /\ stack # <<>>
    /\ Head(stack).type \in {"view", "zoom"}
    /\ LET f == Head(stack)
           m == f.map
           new == IF f.type = "zoom" THEN Camera(map[m].center, f.zoom) ELSE f.cam
       IN  \/ /\ map' = [map EXCEPT ![m] = new]
              /\ anim' = [anim EXCEPT ![m] = NoAnim]
              /\ stack' = ViewEvents(m, map[m], new, f.cause) \o Tail(stack)
           \/ /\ new # map[m]
              /\ anim' = [anim EXCEPT ![m] = [cam |-> new, cause |-> f.cause]]
              /\ stack' = Tail(stack)
              /\ UNCHANGED map
    /\ UNCHANGED <<geojsonLayer, syncing, op, pre, cnt, fitOf, select, lastCmd, tog, pure>>

\* ---- clearGeoJSON
\* variant: only the first feature group is cleared
clearedLayers_firstOnly(layers) ==
    [m \in MapIds |-> IF layers[m] = Null \/ m # 1 THEN layers[m] ELSE Empty]

\* if (this.geojsonLayer<m>) this.geojsonLayer<m>.clearLayers()
clearedLayers(layers) ==
    [m \in MapIds |-> IF layers[m] = Null THEN Null ELSE Empty]

\* variant: only the first map is reset, the second left to the sync handler
clearTargets_firstOnly == <<1>>

\* the maps clearGeoJSON calls setView on, in order
clearTargets == <<1, 2>>

\* clearGeoJSON.  Before initializeMaps this.map1 is null and
\* this.map1.setView throws a TypeError
ClearGeoJSON ==
    /\ Idle
    /\ geojsonLayer' = clearedLayers(geojsonLayer)
    /\ IF map[1] = NoMap
       THEN /\ op' = Trigger("clear", 0, Null, "threw")
            /\ UNCHANGED <<stack, fitOf, lastCmd>>
       ELSE /\ op' = Trigger("clear", 0, Null, "none")
            /\ stack' = [i \in 1 .. Len(clearTargets) |->
                            ViewFrame(clearTargets[i], DefaultCamera)]
            /\ fitOf' = Null
            /\ lastCmd' = Cmd("clear", DefaultCenter, DefaultZoom)
    /\ pre' = Snapshot
    /\ cnt' = ZeroCnt
    /\ tog' = NoTog
    /\ UNCHANGED <<map, syncing, anim, select, pure>>

\* ---- centerOnUserLocation: the geolocation callback.  found: the position
\*      c was obtained (otherwise the promise is rejected and nothing is
\*      set).  Before initializeMaps this.map1.setView throws a TypeError.
\*      The location markers are not part of the state modelled here.
CenterOnUserLocation(c, found) ==
    /\ Idle
    /\ IF found /\ map[1] # NoMap
       THEN /\ stack' = <<ViewFrame(1, Camera(c, LocateZoom)),
                          ViewFrame(2, Camera(c, LocateZoom))>>
            /\ fitOf' = Null
            /\ lastCmd' = Cmd("locate", c, LocateZoom)
            /\ op' = Trigger("locate", 0, Null, "resolved")
       ELSE /\ op' = Trigger("locate", 0, Null, IF found THEN "threw" ELSE "rejected")
            /\ UNCHANGED <<stack, fitOf, lastCmd>>
    /\ pre' = Snapshot
    /\ cnt' = ZeroCnt
    /\ tog' = NoTog
    /\ UNCHANGED <<map, geojsonLayer, syncing, anim, select, pure>>

\* ---- getDebugInfo: reads map1 and the flag (op.result: the syncing field
\*      of the object returned)
GetDebugInfo ==
    /\ Idle
    /\ op' = Trigger("debug", 0, Null,
                     IF map[1] = NoMap THEN "uninitialized"
                     ELSE IF syncing THEN "true" ELSE "false")
    /\ pre' = Snapshot
    /\ cnt' = ZeroCnt
    /\ tog' = NoTog
    /\ UNCHANGED <<map, geojsonLayer, syncing, anim, stack, fitOf, select, lastCmd, pure>>

Next ==
    \/ InitializeMaps /\ UNCHANGED beyond
    \/ \E m \in MapIds, c \in Centers, z \in Zooms : UserMove(m, c, z) /\ UNCHANGED beyond
    \/ SyncHandler /\ UNCHANGED beyond
    \/ ToggleSync /\ UNCHANGED beyond
    \/ \E d \in Datasets : LoadGeoJSON(d) /\ UNCHANGED beyond
    \/ LoadFit /\ UNCHANGED beyond
    \/ LoadFinally /\ UNCHANGED beyond
    \/ \E m \in MapIds : AnimEnd(m) /\ UNCHANGED beyond
    \/ \E z \in Zooms : SetZoom(z) /\ UNCHANGED beyond
    \/ ViewCall /\ UNCHANGED beyond
    \/ ClearGeoJSON /\ UNCHANGED beyond
    \/ \E c \in Centers, found \in BOOLEAN : CenterOnUserLocation(c, found) /\ UNCHANGED beyond
    \/ GetDebugInfo /\ UNCHANGED beyond

Spec == Init /\ [][Next]_vars

\* The handlers of a running call run to completion: JavaScript never
\* abandons a call between two of its listeners.
RunToCompletion ==
    (SyncHandler \/ LoadFit \/ LoadFinally \/ ViewCall) /\ UNCHANGED beyond
FairSpec == Spec /\ WF_vars(RunToCompletion)

\* ======================================================================
\* The shapes drawn with Geoman and their measurement popups
\* ======================================================================
\* A shape of geomanLayer[m]: its class, its vertices, the content of the
\* popup bound to it (NoPopup: none bound) and whether the popup is open.
NoPopup == [has |-> FALSE, label |-> "", distance |-> NoLine, area |-> NoLine]
Shape(kind, points, popup, open) ==
    [kind |-> kind, points |-> points, popup |-> popup, open |-> open]

\* what Geoman hands to the listeners: a marker of one vertex (a text layer,
\* or a marker drawn through map.pm.enableDraw), a line of two, a polygon of
\* three (a rectangle is a polygon); two drawings of each class, with
\* different measures
Drawn(kind) ==
    CASE kind = "Marker" -> {<<LatLng(0, 0)>>, <<LatLng(30, MaxLng)>>}
      [] kind = "Polyline" -> {<<LatLng(0, 0), LatLng(0, 1)>>,
                               <<LatLng(0, 0), LatLng(30, MaxLng)>>}
      [] kind = "Polygon" -> {<<LatLng(0, 0), LatLng(0, 1), LatLng(30, 1)>>,
                              <<LatLng(0, 0), LatLng(0, MaxLng), LatLng(30, MaxLng)>>}

\* variant: one feature group is handed to the Geoman of both maps
layerGroupOf_shared(m, n) == TRUE

\* map.pm.setGlobalOptions({ layerGroup: geomanLayer }): the shapes drawn on
\* map m are added to the group of map n
layerGroupOf(m, n) == n = m

\* Leaflet: a popup that opens closes the popup open on that map
closePopups(shapes) == [i \in 1 .. Len(shapes) |-> [shapes[i] EXCEPT !.open = FALSE]]

\* variant: the popup keeps the text it was bound with
setPopupContent_kept(popup, text) == popup

\* Leaflet: layer.setPopupContent(text) replaces the content of the popup
\* bound to the layer and does nothing when none is bound
setPopupContent(popup, text) == IF popup.has THEN text ELSE popup

\* Leaflet: a popup that opens is brought into view (autoPan): when it does
\* not fit, the map is panned, here to the center pan, at its zoom
autoPan(m, opened, pan) ==
    IF opened /\ pan # map[m].center
    THEN <<ViewFrame(m, Camera(pan, map[m].zoom))>>
    ELSE <<>>

\* ---- the 'pm:create' listener of map m, for a layer of class kind drawn
\*      with these vertices: Geoman has added it to the layer group; the
\*      measurement text, when there is one, is bound as a popup and opened
PmCreate(m, kind, points, pan) ==
    /\ Idle
    /\ map[m] # NoMap
    /\ Len(geomanLayer[m]) < MaxShapes
    /\ \E measurementText \in {formatMeasurement(kind, points)} :
       LET layer == IF measurementText.has
                    THEN Shape(kind, points, measurementText, TRUE)
                    ELSE Shape(kind, points, NoPopup, FALSE)
       IN  /\ geomanLayer' =
                 [n \in MapIds |->
                    IF layerGroupOf(m, n)
                    THEN Append(IF layer.open THEN closePopups(geomanLayer[n])
                                ELSE geomanLayer[n], layer)
                    ELSE geomanLayer[n]]
           /\ stack' = autoPan(m, layer.open, pan)
           /\ fitOf' = IF autoPan(m, layer.open, pan) # <<>> THEN Null ELSE fitOf
           /\ lastCmd' = IF autoPan(m, layer.open, pan) # <<>> THEN NoCmd ELSE lastCmd
    /\ op' = Trigger("pm:create", m, Null, "none")
    /\ pre' = Snapshot
    /\ cnt' = ZeroCnt
    /\ tog' = NoTog
    /\ UNCHANGED <<map, geojsonLayer, syncing, anim, select, pure, storage, app>>

\* ---- the 'pm:edit' listener the 'pm:create' listener put on the layer,
\*      for shape i of map m edited to other vertices: the measurement text,
\*      when there is one, replaces the content of the popup, which is opened
PmEdit(m, i, pan) ==
    /\ Idle
    /\ map[m] # NoMap
    /\ i \in 1 .. Len(geomanLayer[m])
    /\ \E points \in Drawn(geomanLayer[m][i].kind) \ {geomanLayer[m][i].points} :
       \E updatedText \in {formatMeasurement(geomanLayer[m][i].kind, points)} :
          LET layer == geomanLayer[m][i]
              popup == IF updatedText.has THEN setPopupContent(layer.popup, updatedText)
                       ELSE layer.popup
              opened == updatedText.has /\ layer.popup.has
              edited == Shape(layer.kind, points, popup, opened \/ layer.open)
          IN  /\ geomanLayer' =
                    [geomanLayer EXCEPT
                       ![m] = [(IF opened THEN closePopups(geomanLayer[m])
                                ELSE geomanLayer[m]) EXCEPT ![i] = edited]]
              /\ stack' = autoPan(m, opened, pan)
              /\ fitOf' = IF autoPan(m, opened, pan) # <<>> THEN Null ELSE fitOf
              /\ lastCmd' = IF autoPan(m, opened, pan) # <<>> THEN NoCmd ELSE lastCmd
    /\ op' = Trigger("pm:edit", m, Null, "none")
    /\ pre' = Snapshot
    /\ cnt' = ZeroCnt
    /\ tog' = NoTog
    /\ UNCHANGED <<map, geojsonLayer, syncing, anim, select, pure, storage, app>>

\* the maps with their shapes: the user pans the maps, toggles the
\* synchronisation, loads a dataset without features, draws shapes and edits
\* them
ShapeNext ==
    \/ InitializeMaps /\ UNCHANGED beyond
    \/ \E m \in MapIds, c \in Centers : UserMove(m, c, DefaultZoom) /\ UNCHANGED beyond
    \/ SyncHandler /\ UNCHANGED beyond
    \/ ToggleSync /\ UNCHANGED beyond
    \/ LoadGeoJSON("empty") /\ UNCHANGED beyond
    \/ LoadFinally /\ UNCHANGED beyond
    \/ ViewCall /\ UNCHANGED beyond
    \/ \E m \in MapIds : AnimEnd(m) /\ UNCHANGED beyond
    \/ \E m \in MapIds, kind \in Kinds, pan \in Centers :
          \E points \in Drawn(kind) : PmCreate(m, kind, points, pan)
    \/ \E m \in MapIds, i \in 1 .. MaxShapes, pan \in Centers : PmEdit(m, i, pan)

ShapeSpec == Init /\ [][ShapeNext]_vars

\* ======================================================================
\* The pure functions, applied to enumerated inputs
\* ======================================================================
\* x: a zoom in tenths (labelForZoom), the place of a label in the table
\* (zoomForScale), a distance in hundredths of a metre (formatDistance), an
\* area in hundredths of a square metre (formatArea); kind and points: a
\* layer (formatMeasurement)
PureArg(fn, x) == [fn |-> fn, x |-> x, kind |-> "", points |-> <<>>]
PureInputs ==
    {PureArg("labelForZoom", z) : z \in 0 .. Tenths(MaxZoom)}
    \cup {PureArg("zoomForScale", i) : i \in 1 .. Len(scales)}
    \cup {PureArg("formatDistance", d) :
             d \in (KmThreshold * 100 - MaxOffset) .. (KmThreshold * 100 + MaxOffset)}
    \cup {PureArg("formatArea", a) :
             a \in (HaThreshold * 100 - MaxOffset) .. (HaThreshold * 100 + MaxOffset)}
    \cup {[fn |-> "formatMeasurement", x |-> 0, kind |-> k, points |-> ps] :
             k \in Kinds, ps \in RingsUpTo(MaxRing)}

PureInit ==
    /\ map = [m \in MapIds |-> NoMap]
    /\ geojsonLayer = [m \in MapIds |-> Null]
    /\ syncing = TRUE
    /\ anim = [m \in MapIds |-> NoAnim]
    /\ stack = <<>>
    /\ op = Trigger("new", 0, Null, "none")
    /\ pre = [map |-> [m \in MapIds |-> NoMap], layer |-> [m \in MapIds |-> Null],
              syncing |-> TRUE, anim |-> [m \in MapIds |-> NoAnim]]
    /\ cnt = ZeroCnt
    /\ fitOf = Null
    /\ select = [m \in MapIds |-> Null]
    /\ lastCmd = NoCmd
    /\ tog = NoTog
    /\ arg \in PureInputs
    /\ out = NoOut
    /\ BeyondInit

machine == <<map, geojsonLayer, syncing, anim, stack, op, pre, cnt, fitOf,
             select, lastCmd, tog>>

\* _updateSelect with the map at zoom arg.x
ApplyLabelForZoom ==
    /\ arg.fn = "labelForZoom"
    /\ ~out.done
    /\ out' = [NoOut EXCEPT !.done = TRUE, !.text = labelForZoom(arg.x)]
    /\ UNCHANGED <<machine, beyond, arg>>

\* the option of the label at place arg.x is chosen: the zoom the 'change'
\* listener reads (value), and the label _updateSelect shows at that zoom
ApplyZoomForScale ==
    /\ arg.fn = "zoomForScale"
    /\ ~out.done
    /\ LET zoomLevel == zoomForScale(scales[arg.x].text)
       IN  out' = [NoOut EXCEPT !.done = TRUE, !.text = labelForZoom(zoomLevel),
                                !.value = zoomLevel]
    /\ UNCHANGED <<machine, beyond, arg>>

\* the distance line of _formatMeasurement for a length of arg.x
ApplyFormatDistance ==
    /\ arg.fn = "formatDistance"
    /\ ~out.done
    /\ LET line == formatDistance(arg.x)
       IN  out' = [NoOut EXCEPT !.done = TRUE, !.unit = line.unit, !.value = line.value]
    /\ UNCHANGED <<machine, beyond, arg>>

\* the area line of _formatMeasurement for an area of arg.x
ApplyFormatArea ==
    /\ arg.fn = "formatArea"
    /\ ~out.done
    /\ LET line == formatArea(arg.x)
       IN  out' = [NoOut EXCEPT !.done = TRUE, !.unit = line.unit, !.value = line.value]
    /\ UNCHANGED <<machine, beyond, arg>>

\* _formatMeasurement of a layer of class arg.kind with the vertices
\* arg.points
ApplyFormatMeasurement ==
    /\ arg.fn = "formatMeasurement"
    /\ ~out.done
    /\ out' = [NoOut EXCEPT
                 !.done = TRUE,
                 !.distance = IF isPolyline(arg.kind)
                              THEN measuredDistance(arg.kind, arg.points) ELSE 0,
                 !.area = IF isPolygon(arg.kind)
                          THEN calculateGeodesicArea(arg.points) ELSE 0,
                 !.measure = formatMeasurement(arg.kind, arg.points)]
    /\ UNCHANGED <<machine, beyond, arg>>

PureNext ==
    \/ ApplyLabelForZoom
    \/ ApplyZoomForScale
    \/ ApplyFormatDistance
    \/ ApplyFormatArea
    \/ ApplyFormatMeasurement

PureSpec == PureInit /\ [][PureNext]_vars

\* ======================================================================
\* StorageManager: the dataset kept in the browser's storage
\* ======================================================================
\* this.version, and the version a release with another major number wrote
Version == "1.1"
OldVersion == "0.9"
Major(v) == IF v = Version THEN 1 ELSE 0

\* the names of the files, and the empty name validateFilename rejects
FileNames == {"a.geojson", "b.geojson"}
NoName == ""
\* a parsed JSON value whose type is not one of GeoJSON
NotGeoJSON == "notGeoJSON"

\* StorageManager.validateGeoJSON / validateFilename: they throw or return
validGeoJSON(geojson) == geojson \in Datasets
validFilename(filename) == filename # NoName

\* the fields of the payload that load reads back (the timestamp, which save
\* always sets, and the statistics are left out)
createDataPayload(geojson, filename) ==
    [version |-> Version, geojson |-> geojson, filename |-> filename]

\* JSON.stringify and JSON.parse of a payload, and a string JSON.parse
\* throws on
stringify(payload) == <<payload.version, payload.geojson, payload.filename>>
parses(str) == Len(str) = 3
parse(str) == [version |-> str[1], geojson |-> str[2], filename |-> str[3]]
Corrupt == <<"{">>
stringifyMetadata(payload) == <<payload.filename, payload.version>>

\* what setItem does in the calls of one save: localStorage.setItem stores
\* the item ("ok") or throws, a QuotaExceededError ("quota") or another error
\* ("error"); the retry after cleanupOldData, sessionStorage.setItem and the
\* setItem of the metadata store the item or throw ("fail")
Fates == [local : {"ok", "quota", "error"}, retry : {"ok", "fail"},
          session : {"ok", "fail"}, meta : {"ok", "fail"}]

\* attemptSave(key, data) on the storages ls and ss: the storage that took the
\* item ("failed": it threw "All storage methods failed") and both storages
\* afterwards
attemptSave(ls, ss, data, fate) ==
    IF fate.local = "ok"
    THEN [storage |-> "localStorage", ls |-> [ls EXCEPT !.data = data], ss |-> ss]
    ELSE IF fate.local = "quota" /\ fate.retry = "ok"
    THEN [storage |-> "localStorage-after-cleanup",
          ls |-> [ls EXCEPT !.data = data], ss |-> ss]
    ELSE IF fate.session = "ok"
    THEN [storage |-> "sessionStorage",
          ls |-> ls,
          ss |-> [ss EXCEPT !.data = data]]
    ELSE [storage |-> "failed", ls |-> ls, ss |-> ss]

\* saveMetadata(payload): a failure is ignored
saveMetadata(ls, payload, fate) ==
    IF fate.meta = "ok" THEN [ls EXCEPT !.metadata = stringifyMetadata(payload)] ELSE ls

\* save(geojson, filename) on the storages ls and ss: "failed" stands for the
\* rejection with "Storage save failed"
save(ls, ss, geojson, filename, fate) ==
    IF ~validGeoJSON(geojson) \/ ~validFilename(filename)
    THEN [storage |-> "failed", ls |-> ls, ss |-> ss]
    ELSE LET payload == createDataPayload(geojson, filename)
             saveResult == attemptSave(ls, ss, stringify(payload), fate)
         IN  IF saveResult.storage = "failed" THEN saveResult
             ELSE [saveResult EXCEPT !.ls = saveMetadata(saveResult.ls, payload, fate)]

\* loadFromStorage(key): localStorage first, sessionStorage if it has nothing
loadFromStorage(ls, ss) == IF ls.data # NoItem THEN ls.data ELSE ss.data

isValidSavedData(data) == data.geojson # Null /\ data.filename # NoName
isVersionCompatible(dataVersion) == Major(Version) = Major(dataVersion)
migrateData(oldData) == [oldData EXCEPT !.version = Version]

\* ---- StorageManager.save(geojson, filename)
Save(geojson, filename, fate) ==
    /\ LET saveResult == save(localStorage, sessionStorage, geojson, filename, fate)
       IN  /\ localStorage' = saveResult.ls
           /\ sessionStorage' = saveResult.ss
           /\ sto' = IF saveResult.storage = "failed"
                     THEN [op |-> "save", result |-> "threw", saved |-> Null,
                           loaded |-> Null]
                     ELSE [op |-> "save", result |-> saveResult.storage,
                           saved |-> geojson, loaded |-> Null]
    /\ UNCHANGED <<machine, pure, geomanLayer, app>>

\* ---- StorageManager.load(): null when nothing is stored; an item that does
\*      not parse or is not a payload clears the storage; an item of another
\*      major version is migrated and saved again
Load(fate) ==
    /\ LET dataString == loadFromStorage(localStorage, sessionStorage)
           data == parse(dataString)
           migrated == migrateData(data)
           saveResult == save(localStorage, sessionStorage, migrated.geojson,
                              migrated.filename, fate)
       IN  IF dataString = NoItem
           THEN /\ sto' = [sto EXCEPT !.op = "load", !.result = "none", !.loaded = Null]
                /\ UNCHANGED <<localStorage, sessionStorage>>
           ELSE IF ~parses(dataString) \/ ~isValidSavedData(data)
           THEN /\ sto' = [sto EXCEPT !.op = "load", !.result = "cleared", !.loaded = Null]
                /\ localStorage' = NoItems
                /\ sessionStorage' = NoItems
           ELSE IF isVersionCompatible(data.version)
           THEN /\ sto' = [sto EXCEPT !.op = "load", !.result = "data",
                                      !.loaded = data.geojson]
                /\ UNCHANGED <<localStorage, sessionStorage>>
           ELSE IF saveResult.storage = "failed"
           THEN /\ sto' = [sto EXCEPT !.op = "load", !.result = "cleared", !.loaded = Null]
                /\ localStorage' = NoItems
                /\ sessionStorage' = NoItems
           ELSE /\ sto' = [sto EXCEPT !.op = "load", !.result = "migrated",
                                      !.loaded = migrated.geojson]
                /\ localStorage' = saveResult.ls
                /\ sessionStorage' = saveResult.ss
    /\ UNCHANGED <<machine, pure, geomanLayer, app>>

\* ---- StorageManager.clear(): both keys are removed from both storages
Clear ==
    /\ localStorage' = NoItems
    /\ sessionStorage' = NoItems
    /\ sto' = [op |-> "clear", result |-> "true", saved |-> Null, loaded |-> Null]
    /\ UNCHANGED <<machine, pure, geomanLayer, app>>

\* what localStorage may hold when the page opens: nothing, an item this
\* release wrote, an item of another major version, or a damaged item
FirstItems ==
    {NoItem, Corrupt}
    \cup {stringify([version |-> v, geojson |-> "boxA", filename |-> "a.geojson"]) :
             v \in {Version, OldVersion}}

StorageInit ==
    /\ map = [m \in MapIds |-> NoMap]
    /\ geojsonLayer = [m \in MapIds |-> Null]
    /\ syncing = TRUE
    /\ anim = [m \in MapIds |-> NoAnim]
    /\ stack = <<>>
    /\ op = Trigger("new", 0, Null, "none")
    /\ pre = [map |-> [m \in MapIds |-> NoMap], layer |-> [m \in MapIds |-> Null],
              syncing |-> TRUE, anim |-> [m \in MapIds |-> NoAnim]]
    /\ cnt = ZeroCnt
    /\ fitOf = Null
    /\ select = [m \in MapIds |-> Null]
    /\ lastCmd = NoCmd
    /\ tog = NoTog
    /\ arg = NoArg
    /\ out = NoOut
    /\ geomanLayer = [m \in MapIds |-> <<>>]
    /\ \E item \in FirstItems : localStorage = [data |-> item, metadata |-> NoItem]
    /\ sessionStorage = NoItems
    /\ sto = NoSto
    /\ upload = NoUpload
    /\ ui = FirstUi

StorageNext ==
    \/ \E geojson \in Datasets \cup {NotGeoJSON}, filename \in FileNames \cup {NoName},
          fate \in Fates : Save(geojson, filename, fate)
    \/ \E fate \in Fates : Load(fate)
    \/ Clear

StorageSpec == StorageInit /\ [][StorageNext]_vars

\* ======================================================================
\* MapApplication: the sync button and the upload of a file
\* ======================================================================
\* what a file holds: a text the FileReader fails on, a text that is not
\* JSON, JSON that is not GeoJSON, or a dataset
Unreadable == "unreadable"
NotJSON == "notJSON"
Contents == {Unreadable, NotJSON, NotGeoJSON, "boxA", "bad"}

\* readFile(file) resolves; JSON.parse(fileContent) returns;
\* MapApplication.validateGeoJSON(geojson) returns
fileReads(content) == content # Unreadable
jsonParses(content) == content # NotJSON
validateGeoJSON(geojson) == geojson \in Datasets

\* the handlers are installed by setupEventListeners, after initializeMaps;
\* once the error screen has replaced the application nothing can be clicked
ListenersSetUp == \A m \in MapIds : map[m] # NoMap
ErrorScreen == ui.screen = "error"
\* a continuation of an await whose promise is settled runs before the event
\* loop takes the next event
NoMicrotask == upload.pc # "loading"

\* ---- handleSyncToggle: toggleSync, then the button shows what it returned
HandleSyncToggle ==
    /\ ListenersSetUp /\ ~ErrorScreen /\ NoMicrotask
    /\ ToggleSync
    /\ ui' = [ui EXCEPT !.syncBtn = toggled(syncing)]
    /\ UNCHANGED <<geomanLayer, storage, upload>>

\* ---- handleGeoJSONUpload(file) up to `await this.readFile(file)`; one
\*      upload at a time.  ui.error: showError was called since then
HandleGeoJSONUpload(content, name) ==
    /\ ListenersSetUp /\ ~ErrorScreen
    /\ Idle
    /\ upload.pc = "idle"
    /\ upload' = [pc |-> "reading", content |-> content, name |-> name,
                  held |-> <<localStorage, sessionStorage>>, result |-> "pending"]
    /\ ui' = [ui EXCEPT !.error = FALSE]
    /\ UNCHANGED <<machine, pure, geomanLayer, storage>>

\* the catch block: logError, updateStatus, showError
uploadFailed == [upload EXCEPT !.pc = "idle", !.result = "error"]
errorShown == [ui EXCEPT !.error = TRUE]

\* ---- the FileReader is done: the text is parsed and validated, and
\*      loadGeoJSON is called; it runs until it returns (LoadFit,
\*      SyncHandler, LoadFinally) and the upload awaits its promise
FileRead ==
    /\ Idle
    /\ upload.pc = "reading"
    /\ IF fileReads(upload.content) /\ jsonParses(upload.content)
          /\ validateGeoJSON(upload.content)
       THEN /\ LoadGeoJSON(upload.content)
            /\ upload' = [upload EXCEPT !.pc = "loading"]
            /\ UNCHANGED <<ui, geomanLayer, storage>>
       ELSE /\ upload' = uploadFailed
            /\ ui' = errorShown
            /\ UNCHANGED <<machine, pure, geomanLayer, storage>>

\* variant: the dataset is saved whatever loadGeoJSON returned
reachesSave_always(success) == TRUE

\* if (!success) throw ...: the save is reached only after a load that
\* returned true
reachesSave(success) == success

\* ---- loadGeoJSON has returned: `success` is what it returned.  The save is
\*      not awaited: the status line announces it at once, and a save that
\*      is rejected is an unhandled rejection, which brings the error screen
UploadAfterLoad(fate) ==
    /\ stack = <<>>
    /\ upload.pc = "loading"
    /\ LET success == op.result = "ok"
           saveResult == save(localStorage, sessionStorage, upload.content,
                              upload.name, fate)
       IN  /\ IF reachesSave(success)
              THEN /\ localStorage' = saveResult.ls
                   /\ sessionStorage' = saveResult.ss
                   /\ sto' = IF saveResult.storage = "failed"
                             THEN [op |-> "save", result |-> "threw",
                                   saved |-> Null, loaded |-> Null]
                             ELSE [op |-> "save", result |-> saveResult.storage,
                                   saved |-> upload.content, loaded |-> Null]
              ELSE UNCHANGED storage
           /\ IF ~success
              THEN /\ upload' = uploadFailed
                   /\ ui' = errorShown
              ELSE IF saveResult.storage = "failed"
              THEN /\ upload' = [upload EXCEPT !.pc = "idle", !.result = "rejected"]
                   /\ ui' = [ui EXCEPT !.screen = "error"]
              ELSE /\ upload' = [upload EXCEPT !.pc = "idle", !.result = "saved"]
                   /\ ui' = ui
    /\ UNCHANGED <<machine, pure, geomanLayer>>

\* the application once its handlers are installed: the user pans the maps,
\* clicks the sync button and uploads files
UploadNext ==
    \/ InitializeMaps /\ UNCHANGED beyond
    \/ \E m \in MapIds, c \in Centers :
          NoMicrotask /\ ~ErrorScreen /\ UserMove(m, c, DefaultZoom) /\ UNCHANGED beyond
    \/ SyncHandler /\ UNCHANGED beyond
    \/ HandleSyncToggle
    \/ \E content \in Contents : HandleGeoJSONUpload(content, "a.geojson")
    \/ FileRead
    \/ LoadFit /\ UNCHANGED beyond
    \/ LoadFinally /\ UNCHANGED beyond
    \/ \E fate \in Fates : UploadAfterLoad(fate)
    \/ \E m \in MapIds : NoMicrotask /\ AnimEnd(m) /\ UNCHANGED beyond

UploadSpec == Init /\ [][UploadNext]_vars

\* ======================================================================
\* Properties
\* ======================================================================

LoadRunning == \E i \in 1 .. Len(stack) : stack[i].type \in {"fit", "finally"}

\* C1: after a user move or zoom on either map with syncing true has been
\* fully processed, the two maps have the same center and zoom.
C1_SyncedAfterUserMove ==
    (op.kind = "move" /\ pre.syncing /\ Idle) => map[1] = map[2]

C1_Witness ==
    /\ op.kind = "move" /\ pre.syncing /\ Idle
    /\ pre.map[1] # pre.map[2]
    /\ map[op.map].center # pre.map[op.map].center
    /\ map[op.map].zoom # pre.map[op.map].zoom
    /\ map[Other(op.map)] = map[op.map]

\* C2 (as claimed): a user move with syncing true leads to exactly one
\* setView by the sync handler, and that write does not make the handler run
\* again (no handler run on an event the handler's own write raised).
C2_OneWriteNoChain ==
    (op.kind = "move" /\ pre.syncing) =>
        /\ cnt.echoRuns = 0
        /\ cnt.writes <= 1
        /\ (Idle => cnt.writes = 1)

\* C3: after a user move or zoom with syncing true the cascade of handler
\* runs ends: the running call finishes with no event left to deliver.
C3_CascadeEnds ==
    (op.kind = "move" /\ syncing /\ ~Idle) ~> Idle

C3_Witness ==
    /\ op.kind = "move" /\ pre.syncing /\ Idle
    /\ cnt.runs = 4
    /\ cnt.echoRuns = 2

\* C4: with syncing false, a user move or zoom on one map leaves the other
\* map's center and zoom (and any animation of it) as they were.
C4_NoPropagationWhenOff ==
    (op.kind = "move" /\ ~pre.syncing) =>
        /\ map[Other(op.map)] = pre.map[Other(op.map)]
        /\ anim[Other(op.map)] = pre.anim[Other(op.map)]

C4_Witness ==
    /\ op.kind = "move" /\ ~pre.syncing /\ Idle
    /\ cnt.runs >= 1
    /\ pre.map[1] = pre.map[2]
    /\ map[1] # map[2]

\* C5: when loadGeoJSON has returned, on whatever path, syncing has the
\* value it had when loadGeoJSON was called.
C5_SyncingRestored ==
    (op.kind = "load" /\ Idle) => syncing = pre.syncing

C5_Witness ==
    /\ op.kind = "load" /\ Idle
    /\ op.result = "failed"
    /\ ~layersMissing(pre.layer[1], pre.layer[2])
    /\ pre.syncing /\ syncing

\* C6 (as claimed): syncing is false for as long as a load runs, and the sync
\* handler never calls setView for a camera event that the load's own
\* fitBounds raised.
C6_LoadNotPropagated ==
    /\ LoadRunning => ~syncing
    /\ cnt.loadWrites = 0

\* C7: a load called while a feature layer is missing fails and changes
\* nothing: layers and cameras stay as they were, and once it has returned it
\* has reported failure and syncing is back to its value.
C7_MissingLayerNoMutation ==
    (op.kind = "load" /\ layersMissing(pre.layer[1], pre.layer[2])) =>
        /\ geojsonLayer = pre.layer
        /\ map = pre.map
        /\ anim = pre.anim
        /\ (Idle => (op.result = "failed" /\ syncing = pre.syncing))

C7_Witness ==
    /\ op.kind = "load" /\ Idle
    /\ pre.layer[1] = Null
    /\ op.result = "failed"
    /\ op.d = "boxA"

\* C8 (as claimed): a load that has reported failure left both feature
\* layers and both cameras as they were before it.
C8_FailedLoadNoMutation ==
    (op.kind = "load" /\ Idle /\ op.result = "failed") =>
        /\ geojsonLayer = pre.layer
        /\ map = pre.map

\* C9 (as claimed): loading a dataset that is empty or has no extent changes
\* neither camera, puts the dataset into both feature layers and reports
\* success.
C9_NoExtentKeepCamera ==
    (op.kind = "load" /\ op.d \in {"empty", "point"}
        /\ ~layersMissing(pre.layer[1], pre.layer[2])) =>
        /\ map = pre.map
        /\ anim = pre.anim
        /\ \A m \in MapIds : geojsonLayer[m] = op.d
        /\ (Idle => op.result = "ok")

\* C9 (amended): loading the empty collection, the dataset whose bounds
\* isValid() rejects, changes neither camera, starts no animation, puts the
\* dataset into both feature layers and reports success.
C9_InvalidBoundsKeepCamera ==
    (op.kind = "load" /\ op.d = "empty"
        /\ ~layersMissing(pre.layer[1], pre.layer[2])) =>
        /\ map = pre.map
        /\ anim = pre.anim
        /\ \A m \in MapIds : geojsonLayer[m] = op.d
        /\ (Idle => op.result = "ok")

C9_Witness ==
    /\ op.kind = "load" /\ op.d = "empty" /\ Idle
    /\ op.result = "ok"
    /\ pre.layer[1] = "boxA"
    /\ geojsonLayer[1] = "empty" /\ geojsonLayer[2] = "empty"
    /\ map[1] # DefaultCamera
    /\ map[1] # map[2]

C17_TableOrder == <<"1:500", "1:1,000", "1:2,000", "1:3,000", "1:25,000", "1:200,000">>
C17_NearestFirst ==
    (out.done /\ arg.fn = "labelForZoom") =>
        /\ [i \in 1 .. Len(scales) |-> scales[i].text] = C17_TableOrder
        /\ \E i \in 1 .. Len(scales) :
              /\ out.text = C17_TableOrder[i]
              /\ \A j \in 1 .. Len(scales) :
                    Abs(arg.x - scales[i].zoom) <= Abs(arg.x - scales[j].zoom)
              /\ \A j \in 1 .. i - 1 :
                    Abs(arg.x - scales[i].zoom) < Abs(arg.x - scales[j].zoom)

\* zoom 16.5 is as far from 18 as from 15: the earlier entry is returned
C17_Witness ==
    /\ out.done /\ arg.fn = "labelForZoom"
    /\ arg.x = 165
    /\ out.text = "1:3,000"

\* C18: for every label of the scale table, the label shown for the zoom that
\* choosing this label asks for is this label.
C18_RoundTrip ==
    (out.done /\ arg.fn = "zoomForScale") => out.text = scales[arg.x].text

\* the round trip of '1:500', whose zoom 19.5 has a decimal
C18_Witness ==
    /\ out.done /\ arg.fn = "zoomForScale"
    /\ scales[arg.x].text = "1:500"
    /\ out.value = 195

\* C20: the distance line is in metres when the distance is below 1000 m and
\* in kilometres (distance / 1000) otherwise, in particular at exactly 1000 m.
C20_KmFromThousand ==
    (out.done /\ arg.fn = "formatDistance") =>
        IF arg.x < 1000 * 100
        THEN out.unit = "m" /\ out.value = arg.x
        ELSE out.unit = "km" /\ out.value = (arg.x + 500) \div 1000

\* C11: toggleSync sets syncing to the negation of its previous value and
\* returns the new value; it changes neither camera (nor starts or ends a
\* view change), so cameras that differ still differ after the call.
C11_ToggleFlipsOnly ==
    (op.kind = "toggle") =>
        /\ syncing = ~pre.syncing
        /\ op.result = (IF syncing THEN "true" ELSE "false")
        /\ map = pre.map
        /\ anim = pre.anim
        /\ Idle

\* syncing switched on while the cameras differ: they still differ
C11_Witness ==
    /\ op.kind = "toggle"
    /\ syncing
    /\ map[1] # NoMap
    /\ map[1] # map[2]

\* C12: two consecutive toggleSync calls leave syncing at the value it had
\* before them; and once syncing has been switched on again after the maps
\* were moved apart while it was off, the next user move or zoom of either
\* map is propagated: when it has been processed both cameras are equal.
C12_DoubleToggleResumes ==
    /\ (op.kind = "toggle" /\ tog.n = 2) => syncing = tog.start
    /\ (op.kind = "move" /\ tog.phase = 2 /\ Idle) =>
          /\ syncing
          /\ map[1] = map[2]
          /\ map[op.map] # pre.map[op.map]

\* the cameras differed when syncing came back on, and the user then moved a
\* map
C12_Witness ==
    /\ op.kind = "move" /\ tog.phase = 2 /\ Idle
    /\ pre.syncing
    /\ pre.map[1] # pre.map[2]

C15_LayersAgree ==
    /\ [](geojsonLayer[1] = geojsonLayer[2])
    /\ []((op.kind = "load" /\ Idle /\ op.result = "ok") =>
             \A m \in MapIds : geojsonLayer[m] = op.d)
    /\ []((op.kind = "load" /\ Idle /\ op.result = "failed") =>
             \A m \in MapIds : geojsonLayer[m] = (IF pre.layer[m] = Null THEN Null ELSE Empty))
    /\ []((op.kind = "clear") =>
             \A m \in MapIds : geojsonLayer[m] = (IF pre.layer[m] = Null THEN Null ELSE Empty))
    /\ [][geojsonLayer' # geojsonLayer =>
            \/ InitializeMaps
            \/ \E d \in Datasets : LoadGeoJSON(d)
            \/ ClearGeoJSON]_vars

\* one dataset replaced by another in both layers
C15_Witness ==
    /\ op.kind = "load" /\ Idle /\ op.result = "ok"
    /\ pre.layer[1] = "boxA" /\ pre.layer[2] = "boxA"
    /\ geojsonLayer[1] = "boxB" /\ geojsonLayer[2] = "boxB"

\* setZoom before initializeMaps: nothing changes
C16_NoMapsNoChange ==
    (op.kind = "setZoom" /\ pre.map[1] = NoMap) =>
        /\ map = pre.map /\ anim = pre.anim /\ geojsonLayer = pre.layer
        /\ syncing = pre.syncing /\ Idle /\ lastCmd.kind # "zoom"
\* setZoom(z) has settled: no listener pending, no animation under way and no
\* other camera command given since
C16_Settled == lastCmd.kind = "zoom" /\ Quiescent

C19_LabelFollowsZoom ==
    (Idle /\ map[1] # NoMap) =>
        \A m \in MapIds : select[m] = labelForZoom(10 * map[m].zoom)

\* the user zoomed map 1 in, the sync handler zoomed map 2, and the selector
\* of map 2 shows the label of the new zoom
C19_Witness ==
    /\ Idle /\ op.kind = "move" /\ op.map = 1
    /\ pre.map[2].zoom = DefaultZoom
    /\ map[2].zoom = LocateZoom
    /\ select[2] = "1:25,000"

\* C21 (as claimed): the area line is in square metres when the area is below
\* 10000 square metres and in hectares (area / 10000) otherwise, in particular
\* at exactly 10000 square metres.
C21_HaFromTenThousand ==
    (out.done /\ arg.fn = "formatArea") =>
        IF arg.x < 10000 * 100
        THEN out.unit = "m2" /\ out.value = arg.x
        ELSE out.unit = "ha" /\ out.value = (arg.x + 5000) \div 10000

\* C22: a line or polygon with no point or a single point measures a distance
\* of 0 (no closing segment is added for the polygon), a polygon whose ring
\* has fewer than 3 points an area of 0, and the text is built all the same.
C22_DegenerateIsZero ==
    (out.done /\ arg.fn = "formatMeasurement") =>
        /\ (arg.kind \in {"Polyline", "Polygon"} /\ Len(arg.points) <= 1) =>
              /\ out.distance = 0
              /\ out.measure.has
              /\ out.measure.distance = [unit |-> "m", value |-> 0]
        /\ (arg.kind = "Polygon" /\ Len(arg.points) < 3) =>
              /\ out.area = 0
              /\ out.measure.has
              /\ out.measure.area = [unit |-> "m2", value |-> 0]

\* a polygon of two points apart: a perimeter, and no area
C22_Witness ==
    /\ out.done /\ arg.fn = "formatMeasurement"
    /\ arg.kind = "Polygon" /\ Len(arg.points) = 2
    /\ arg.points[1].lng # arg.points[2].lng
    /\ arg.points[1].lat # arg.points[2].lat
    /\ out.distance > 0
    /\ out.area = 0

\* the length of the path through the points in their order
RECURSIVE C23_PathLength(_)
C23_PathLength(points) ==
    IF Len(points) < 2 THEN 0
    ELSE distanceTo(points[1], points[2]) + C23_PathLength(Tail(points))

\* C23: the distance measured for a line is the sum of the distances between
\* consecutive points and nothing else; for a polygon with more than one
\* point it is that sum plus the distance from the last point to the first.
C23_ClosingSegmentOnlyForRing ==
    (out.done /\ arg.fn = "formatMeasurement") =>
        /\ arg.kind = "Polyline" => out.distance = C23_PathLength(arg.points)
        /\ (arg.kind = "Polygon" /\ Len(arg.points) > 1) =>
              out.distance = C23_PathLength(arg.points)
                                + distanceTo(arg.points[Len(arg.points)], arg.points[1])

\* a line of three points that ends away from where it starts
C23_Witness ==
    /\ out.done /\ arg.fn = "formatMeasurement"
    /\ arg.kind = "Polyline" /\ Len(arg.points) = 3
    /\ arg.points[3] # arg.points[1]
    /\ arg.points[2] # arg.points[1] /\ arg.points[2] # arg.points[3]
    /\ out.distance = distanceTo(arg.points[1], arg.points[2])
                        + distanceTo(arg.points[2], arg.points[3])

\* the ring written backwards, and written from its second vertex on
C30_Reverse(ring) == [i \in 1 .. Len(ring) |-> ring[Len(ring) + 1 - i]]
C30_Rotate(ring) == [i \in 1 .. Len(ring) |-> ring[(i % Len(ring)) + 1]]
\* the formula of the specification, summed cyclically from vertex i on: the
\* sum of (lon_{i+1} - lon_i) * (2 + sin lat_i + sin lat_{i+1}), doubled
RECURSIVE C30_SpecSum(_, _)
C30_SpecSum(ring, i) ==
    IF i > Len(ring) THEN 0
    ELSE LET j == IF i = Len(ring) THEN 1 ELSE i + 1
         IN  (ring[j].lng - ring[i].lng) * (4 + sinTwice(ring[i].lat) + sinTwice(ring[j].lat))
                + C30_SpecSum(ring, i + 1)
C30_SpecArea(ring) ==
    LET sum == C30_SpecSum(ring, 1) * 125000
    IN  IF sum < 0 THEN 0 - sum ELSE sum

\* C30: the area computed for a ring is not negative, is the same for the
\* ring written backwards and for the ring written from another vertex on,
\* and is the absolute value of the specification's cyclic sum, although the
\* code sums the longitude differences with the other sign.
C30_AreaOfRing ==
    (out.done /\ arg.fn = "formatMeasurement" /\ arg.kind = "Polygon") =>
        /\ out.area >= 0
        /\ out.area = calculateGeodesicArea(C30_Reverse(arg.points))
        /\ out.area = calculateGeodesicArea(C30_Rotate(arg.points))
        /\ out.area = C30_SpecArea(arg.points)

\* a ring of four vertices with an area, for which the specification's sum is
\* negative and the code's positive
C30_Witness ==
    /\ out.done /\ arg.fn = "formatMeasurement" /\ arg.kind = "Polygon"
    /\ Len(arg.points) = 4
    /\ C30_SpecSum(arg.points, 1) < 0
    /\ ringSum(arg.points, 1) > 0
    /\ out.area > 0
    /\ C30_Reverse(arg.points) # arg.points

\* ----------------------------------------------------------------------
\* C24: a shape that is neither a line nor a polygon never produces a
\* measurement: the formatter returns no text for it, and after its creation
\* and after every edit of it no popup is bound to it and none is open.
C24_PointHasNoMeasurement ==
    \A m \in MapIds : \A i \in 1 .. Len(geomanLayer[m]) :
        LET layer == geomanLayer[m][i]
        IN  ~isPolyline(layer.kind) =>
               /\ ~formatMeasurement(layer.kind, layer.points).has
               /\ layer.popup = NoPopup
               /\ ~layer.open

\* a marker was drawn and then edited, on a map that shows it
C24_Witness ==
    /\ op.kind = "pm:edit"
    /\ stack = <<>>
    /\ geomanLayer[op.map] # <<>>
    /\ geomanLayer[op.map][1].kind = "Marker"
    /\ geomanLayer[op.map][1].points = <<LatLng(30, MaxLng)>>

\* ----------------------------------------------------------------------
\* C25: the popup of a line or polygon is always current: after the shape is
\* created and after every edit of it, the content of its popup is the
\* formatted measurement of the vertices it has now.
C25_LabelIsCurrent ==
    \A m \in MapIds : \A i \in 1 .. Len(geomanLayer[m]) :
        LET layer == geomanLayer[m][i]
        IN  isPolyline(layer.kind) =>
               /\ layer.popup.has
               /\ layer.popup = formatMeasurement(layer.kind, layer.points)

\* a polygon was edited, and its measurement is no longer that of the
\* vertices it was drawn with
C25_Witness ==
    /\ op.kind = "pm:edit"
    /\ geomanLayer[op.map] # <<>>
    /\ LET layer == geomanLayer[op.map][1]
       IN  /\ layer.kind = "Polygon"
           /\ layer.open
           /\ \E points \in Drawn("Polygon") \ {layer.points} :
                  LET old == formatMeasurement("Polygon", points)
                  IN  /\ old.distance # layer.popup.distance
                      /\ old.area # layer.popup.area

\* ----------------------------------------------------------------------
\* C26: only camera state crosses between the maps.
\* the shapes of map m change only in the listeners of a shape created or
\* edited on map m: never through the other map, never through another step
C26_CollectionsOwned ==
    [][\A m \in MapIds :
          geomanLayer'[m] # geomanLayer[m] =>
             \/ \E kind \in Kinds, pan \in Centers :
                   \E points \in Drawn(kind) : PmCreate(m, kind, points, pan)
             \/ \E i \in 1 .. MaxShapes, pan \in Centers : PmEdit(m, i, pan)]_vars

\* a run of the sync handler changes at most the camera of the sibling of
\* the map that moved: the shapes and the feature layers of both maps and
\* the camera of the map that moved stay as they are
C26_SyncFrame ==
    [][SyncHandler =>
          /\ geomanLayer' = geomanLayer
          /\ geojsonLayer' = geojsonLayer
          /\ syncing' = syncing
          /\ map'[Head(stack).map] = map[Head(stack).map]]_vars

C27_LoadReturnsLastSave ==
    (sto.op = "load" /\ sto.saved # Null) => sto.loaded = sto.saved

\* ----------------------------------------------------------------------
\* C28: a toggleSync is never lost to a load.
\* no toggleSync runs between loadGeoJSON's saving of the flag and its
\* restoring it
C28_NoToggleInLoad == [][ToggleSync => ~LoadRunning /\ ~LoadRunning']_vars

\* whenever no load is running the flag is what the user's clicks made it:
\* the sync button shows it
C28_FlagIsUsersChoice == [](~LoadRunning => syncing = ui.syncBtn)

\* C28 as claimed: moreover, no camera event handler runs in between.
C28_NoHandlerInLoad ==
    /\ C28_NoToggleInLoad
    /\ C28_FlagIsUsersChoice
    /\ [](LoadRunning => cnt.runs = 0)

\* C28, amended: the camera event handlers that run in between are those of
\* the events loadGeoJSON's own fitBounds calls fire; they find the flag
\* off and move no map.
C28_ToggleNeverLost ==
    /\ C28_NoToggleInLoad
    /\ C28_FlagIsUsersChoice
    /\ [][SyncHandler /\ LoadRunning =>
            /\ Head(stack).cause = "load"
            /\ ~syncing
            /\ map' = map]_vars

\* the user had switched syncing off; an uploaded dataset was then loaded,
\* its fitBounds events ran the sync handler, and when the upload went on
\* after the load the flag was off as the button says
C28_Witness ==
    /\ op.kind = "load" /\ op.result = "ok" /\ Idle
    /\ upload.result = "saved"
    /\ cnt.runs > 0
    /\ ~pre.syncing /\ ~syncing /\ ~ui.syncBtn

\* ----------------------------------------------------------------------
\* C29: on upload the dataset is written to the storage only after
\* loadGeoJSON has returned true; when the file cannot be read, parsed or
\* validated, or loadGeoJSON returns false, the upload ends with the storage
\* holding what it held when the upload began and with the error shown.
C29_StoredOnlyAfterLoad ==
    /\ [][<<localStorage, sessionStorage>>' # <<localStorage, sessionStorage>> =>
            /\ upload.pc = "loading" /\ stack = <<>>
            /\ op.kind = "load" /\ op.d = upload.content /\ op.result = "ok"]_vars
    /\ [][upload.pc = "reading" /\ upload'.pc # "reading"
            /\ upload.content \in {Unreadable, NotJSON, NotGeoJSON} =>
               upload'.pc = "idle"]_vars
    /\ [][upload.pc # "idle" /\ upload'.pc = "idle"
            /\ (upload.pc = "reading" \/ op.result # "ok") =>
               /\ <<localStorage', sessionStorage'>> = upload.held
               /\ upload'.result = "error"
               /\ ui'.error]_vars
    /\ []((upload.pc = "idle" /\ upload.result = "error") =>
            /\ <<localStorage, sessionStorage>> = upload.held
            /\ ui.error)

\* a dataset had been uploaded and stored; the upload of a file whose
\* dataset loadGeoJSON fails on has then ended: the error is shown and the
\* storage holds the earlier dataset
C29_Witness ==
    /\ upload.pc = "idle" /\ upload.result = "error" /\ upload.content = "bad"
    /\ op.kind = "load" /\ op.result = "failed"
    /\ ui.error
    /\ localStorage.data = stringify(createDataPayload("boxA", "a.geojson"))
    /\ <<localStorage, sessionStorage>> = upload.held

====
